---- MODULE Spec2Model ----
(***************************************************************************)
(* Alerta: a message dialog shown directly against the X11 protocol.       *)
(* The model follows Builder::show (crates/alerta/src/lib.rs): the start-up *)
(* sequence, the event loop with its `pressed` flag and its batching of    *)
(* pending events, and the release of the connection and the window when   *)
(* show returns.  The modules ui and x11 are used by show but are not part *)
(* of the source at hand; their behaviour is taken from the specification. *)
(***************************************************************************)
EXTENDS Integers, Sequences, FiniteSets, TLC

\* Bounds of the model.
MaxInFlight == 1    \* server events sent and not yet taken by the event loop
MaxQueued == 2      \* the same, in the runs that observe the order of events
MaxCount == 3       \* observation counters saturate here

VARIABLES
    watch,          \* what this run observes: "none", "drag", "batch", "order",
                    \* "size", "icon", "theme" or "press"
    button_preset,  \* Builder.button_preset
    message,        \* Builder.message: the measured width of each of its lines,
                    \* every line one word that cannot be broken
    theme,          \* Builder.theme, None if not set
    px,             \* a pixel of the icon on its way from the decoder to the canvas
    detected,       \* what Theme::detect has settled on, None before that
    ran,            \* the external commands run so far, each with its result
    pc,             \* position of show()
    result,         \* what show() returned
    connRefs,       \* live handles of the connection (conn and win's clone)
    winExists,      \* the server-side window resource exists
    winSize,        \* the width and height the window was created with
    mapped,         \* the window is mapped
    contents,       \* the canvas uploaded last, None before the first upload
    pressed,        \* the event loop's `pressed` flag
    ui,             \* the Ui: buttons, hovered, pressed, dirty, canvas
    wire,           \* messages the server wrote and the client has not read
    queue,          \* the connection's queue of events read while awaiting a reply
    seq,            \* sequence number of the last request expecting a reply
    owed,           \* sequence number the server still has to answer, 0 if none
    quiet,          \* the server has stopped producing events
    \* Observations (history variables, read by the properties only).
    trail,          \* the steps of the start-up that succeeded, in order
    pending,        \* events the server produced that process_event has not seen
    orderOk,        \* every event handed to Ui::process_event was Head(pending)
    dragFailed,     \* the start_drag() call of the last processed event failed
    firstFailed,    \* the first other operation that failed, None if none
    closed,         \* the loop and Ui state in which the first CloseRequested
                    \* was processed, None if none was
    answerSeen,     \* the first answer process_event yielded, None if none
    rel,            \* the last processed event, if it was ButtonRelease(Left)
    outsideMoves,   \* CursorMoves outside all buttons while pressed, since the last
                    \* ButtonPress(Left) (watch = "drag")
    outsideDrags,   \* start_drag() calls made for those CursorMoves
                    \* (watch = "drag")
    iterEvents,     \* events processed in this iteration of the loop
                    \* (this and the next two: watch = "batch")
    iterRedraws,    \* redraw() calls of this iteration
    iterUploads,    \* set_contents() calls of this iteration
    replies,        \* replies consumed by the last request awaiting one
    replySeq,       \* the sequence number the last of them carried
    eager,          \* the Ui of a loop that redraws and uploads after every
                    \* event, fed the same events (watch = "batch")
    last            \* how the closure treated the event processed last, and
                    \* which left press or release came last (watch = "press")

\* What show is given and what it settles before Ui::new: nothing changes it later.
setup == <<button_preset, message, theme, px, detected, ran>>
prog == <<setup, pc, result, connRefs, winExists, winSize, mapped,
          contents, pressed, ui, wire, queue, seq, owed>>
obs == <<trail, watch, quiet, pending, orderOk, dragFailed, firstFailed, closed, answerSeen, rel,
         outsideMoves, outsideDrags, iterEvents, iterRedraws, iterUploads, replies,
         replySeq, eager, last>>
vars == <<prog, obs>>

None == <<>>
Some(x) == <<x>>

Cap(n) == IF n > MaxCount THEN MaxCount ELSE n

\* `n as u16`: the low 16 bits of n.
U16Max == 65535
AsU16(n) == n % (U16Max + 1)

\* A counter is kept only in the runs that observe it.
Watch(mode, new, old) == IF watch = mode THEN new ELSE old

----------------------------------------------------------------------------
\* Answer, Result<Answer, Error>

NoAnswer == [tag |-> "None", index |-> None]
Closed == [tag |-> "Closed", index |-> None]
Button(i) == [tag |-> "Button", index |-> Some(i)]

NoResult == [tag |-> "None", answer |-> NoAnswer, op |-> "-"]
Ok(a) == [tag |-> "Ok", answer |-> a, op |-> "-"]
Err(op) == [tag |-> "Err", answer |-> NoAnswer, op |-> op]

----------------------------------------------------------------------------
\* ButtonPreset

ButtonPreset == {"Close", "Ok", "OkCancel", "RetryCancel", "YesNo", "YesNoCancel"}

strings(preset) ==
    CASE preset = "Close" -> <<"Close">>
      [] preset = "Ok" -> <<"OK">>
      [] preset = "OkCancel" -> <<"OK", "Cancel">>
      [] preset = "RetryCancel" -> <<"Retry", "Cancel">>
      [] preset = "YesNo" -> <<"Yes", "No">>
      [] preset = "YesNoCancel" -> <<"Yes", "No", "Cancel">>

----------------------------------------------------------------------------
\* Theme, Theme::detect

Theme == {"Light", "Dark"}

ThemeOk(t) == [tag |-> "Ok", theme |-> t]
ThemeErr == [tag |-> "Err", theme |-> "-"]

\* self.theme.unwrap_or_else(Theme::detect), Theme::detect having run if needed
unwrap_or(opt, other) == IF opt # None THEN opt[1] ELSE other[1]

\* What Command::output() gives: whether the command could be run, its exit
\* status, and its standard output, word by word, None if it is not UTF-8.
Output(spawned, success, stdout) ==
    [spawned |-> spawned, success |-> success, stdout |-> stdout]

Outputs(stdouts) ==
    {Output(FALSE, FALSE, None), Output(TRUE, FALSE, Some(<<>>)),
     Output(TRUE, TRUE, None)}
    \cup {Output(TRUE, TRUE, Some(r)) : r \in stdouts}

DbusReplies ==
    {<<"variant", "variant", "uint32", "1">>, <<"variant", "variant", "uint32", "2">>,
     <<"variant", "variant", "uint32", "0">>, <<>>}

GsettingsReplies ==
    {<<"'", "prefer-dark", "'">>, <<"'", "prefer-light", "'">>, <<"'", "default", "'">>,
     <<"prefer-dark">>, <<>>}

ends_with(str, suffix) ==
    /\ Len(suffix) <= Len(str)
    /\ SubSeq(str, Len(str) - Len(suffix) + 1, Len(str)) = suffix

RECURSIVE trim_matches(_, _)
trim_matches(str, c) ==
    IF str # <<>> /\ Head(str) = c THEN trim_matches(Tail(str), c)
    ELSE IF str # <<>> /\ str[Len(str)] = c
         THEN trim_matches(SubSeq(str, 1, Len(str) - 1), c)
    ELSE str

Theme_detect_dbus(out) ==
    IF ~out.spawned THEN ThemeErr
    ELSE IF ~out.success THEN ThemeErr
    ELSE IF out.stdout = None THEN ThemeErr
    ELSE IF ends_with(out.stdout[1], <<"uint32", "1">>) THEN ThemeOk("Dark")
    ELSE IF ends_with(out.stdout[1], <<"uint32", "2">>) THEN ThemeOk("Light")
    ELSE ThemeErr

Theme_detect_gsettings(out) ==
    IF ~out.spawned THEN ThemeErr
    ELSE IF ~out.success THEN ThemeErr
    ELSE IF out.stdout = None THEN ThemeErr
    ELSE LET stdout == trim_matches(out.stdout[1], "'")
         IN IF stdout = <<"prefer-dark">> THEN ThemeOk("Dark")
            ELSE IF stdout = <<"prefer-light">> THEN ThemeOk("Light")
            ELSE ThemeErr

Ran(cmd, r) == [cmd |-> cmd, result |-> r]

----------------------------------------------------------------------------
\* WindowEvent, CursorPos, MouseButton

MouseButton == {"Left", "Middle", "Right"}

CursorPos(x, y) == [x |-> x, y |-> y]
NoPos == [x |-> 0 - 1, y |-> 0 - 1]

Event(kind, pos, button) == [kind |-> kind, pos |-> pos, button |-> button]

WindowEvent(positions) ==
    {Event("CloseRequested", NoPos, "-"), Event("RedrawRequested", NoPos, "-"),
     Event("CursorLeave", NoPos, "-")}
    \cup {Event("CursorEnter", p, "-") : p \in positions}
    \cup {Event("CursorMove", p, "-") : p \in positions}
    \cup {Event("ButtonPress", NoPos, b) : b \in MouseButton}
    \cup {Event("ButtonRelease", NoPos, b) : b \in MouseButton}

----------------------------------------------------------------------------
\* Icon::get: the decoded icon, RGBA bytes, becomes premultiplied ARGB pixels.

\* A u32 is kept as its two 16-bit halves.
Byte == 256
Half == U16Max + 1
U32(n) == [hi |-> (n \div Half) % Half, lo |-> n % Half]

RECURSIVE BitOr16(_, _)
BitOr16(x, y) ==
    IF x = 0 THEN y
    ELSE IF y = 0 THEN x
    ELSE (IF x % 2 = 1 \/ y % 2 = 1 THEN 1 ELSE 0) + 2 * BitOr16(x \div 2, y \div 2)

\* x | y on u32
BitOr(x, y) == [hi |-> BitOr16(x.hi, y.hi), lo |-> BitOr16(x.lo, y.lo)]

\* x << n on u32, for n < 16 and for n >= 16; bits shifted out at the top are lost
RECURSIVE Shl(_, _)
Shl(x, n) ==
    IF n >= 16 THEN Shl([hi |-> x.lo, lo |-> 0], n - 16)
    ELSE [hi |-> ((x.hi * 2^n) % Half) + ((x.lo * 2^n) \div Half),
          lo |-> (x.lo * 2^n) % Half]

\* The channels of an ARGB pixel.
Alpha(p) == p.hi \div Byte
Red(p) == p.hi % Byte
Green(p) == p.lo \div Byte
Blue(p) == p.lo % Byte

\* The conversion without the premultiplication.
Icon_get_plain(bytes) ==
    LET r == U32(bytes[1])
        g == U32(bytes[2])
        b == U32(bytes[3])
        a == U32(bytes[4])
    IN BitOr(BitOr(BitOr(Shl(a, 24), Shl(r, 16)), Shl(g, 8)), b)

\* let [mut r, mut g, mut b, a] = p.to_ne_bytes().map(u32::from);
\* r = r * a / 255; g = g * a / 255; b = b * a / 255;
\* *p = (a << 24) | (r << 16) | (g << 8) | b;
\* (a product of two bytes is below 2^16, far from the 32 bits of r * a)
Icon_get(bytes) ==
    LET a == U32(bytes[4])
        r == U32((bytes[1] * bytes[4]) \div 255)
        g == U32((bytes[2] * bytes[4]) \div 255)
        b == U32((bytes[3] * bytes[4]) \div 255)
    IN BitOr(BitOr(BitOr(Shl(a, 24), Shl(r, 16)), Shl(g, 8)), b)

\* Drawing a premultiplied pixel over an opaque one of the canvas, channel by
\* channel: src + dst * (255 - src alpha) / 255.
Over(src, dst) ==
    LET k == 255 - Alpha(src)
        ch(c, d) == U32(c + ((d * k) \div 255))
    IN BitOr(BitOr(BitOr(Shl(ch(Alpha(src), Alpha(dst)), 24),
                         Shl(ch(Red(src), Red(dst)), 16)),
                   Shl(ch(Green(src), Green(dst)), 8)),
             ch(Blue(src), Blue(dst)))

\* Channel values of the decoded icons that the model tries, and the opaque
\* greys of the canvas behind the icon.
Channel == {0, 1, 2, 3, 64, 127, 128, 129, 253, 254, 255}
Grey(v) == Icon_get(<<v, v, v, 255>>)
Background == {Grey(v) : v \in {0, 128, 255}}

Pixel(stage, from, value) == [stage |-> stage, from |-> from, value |-> value]
NoPixel == Pixel("none", <<>>, U32(0))

----------------------------------------------------------------------------
\* Ui (module ui): layout, hit test, process_event, redraw.

Margin == 1         \* fixed margin around and between the buttons
IconWidth == 1      \* width of the icon, which stands left of the text
IconHeight == 1     \* height of the icon
LineHeight == 1     \* height of a line of text
ButtonHeight == 1   \* fixed height of the button row

Max(a, b) == IF a >= b THEN a ELSE b

\* The wrapped text: a word is never split, so a line is as wide as its word.
RECURSIVE TextWidth(_)
TextWidth(msg) ==
    IF msg = <<>> THEN 0 ELSE Max(Head(msg), TextWidth(Tail(msg)))
TextHeight(msg) == Len(msg) * LineHeight

\* The button row lies below the icon and the text.
ButtonRowY(msg) == Max(IconHeight, TextHeight(msg))

\* The measured width of a label: one cell per character.
LabelWidth(label) == Len(label)

\* Left edge of the i-th button (1-based), laid out left to right in label order.
RECURSIVE ButtonX(_, _)
ButtonX(labels, i) ==
    IF i = 1 THEN Margin
    ELSE ButtonX(labels, i - 1) + LabelWidth(labels[i - 1]) + Margin

LayoutButtons(msg, labels) ==
    [i \in 1..Len(labels) |->
        [x |-> ButtonX(labels, i), y |-> ButtonRowY(msg),
         w |-> LabelWidth(labels[i]), h |-> ButtonHeight,
         label |-> labels[i], index |-> i - 1]]

\* The larger of the text and the button row, within the margins.
CanvasWidth(msg, labels) ==
    Max(Margin + IconWidth + TextWidth(msg) + Margin, ButtonX(labels, Len(labels) + 1))
CanvasHeight(msg) == ButtonRowY(msg) + ButtonHeight

Contains(b, pos) ==
    /\ pos.x >= b.x /\ pos.x < b.x + b.w
    /\ pos.y >= b.y /\ pos.y < b.y + b.h

\* The first button whose rect contains pos.
HitTest(buttons, pos) ==
    LET hit == {i \in 1..Len(buttons) : Contains(buttons[i], pos)}
    IN IF hit = {} THEN None
       ELSE Some(buttons[CHOOSE i \in hit : \A j \in hit : i <= j].index)

\* What redraw paints: the buttons with the hovered and the pressed one marked.
Paint(hovered, uiPressed) == [hovered |-> hovered, pressed |-> uiPressed]

Ui_new(th, msg, labels) ==
    [theme |-> th,
     buttons |-> LayoutButtons(msg, labels), hovered |-> None, pressed |-> None,
     dirty |-> FALSE,
     canvas |-> [width |-> CanvasWidth(msg, labels), height |-> CanvasHeight(msg),
                 paint |-> Paint(None, None)]]

\* The Ui before Ui::new ran.
NoUi == Ui_new("Light", <<>>, <<>>)

Hover(u, h) == [u EXCEPT !.hovered = h, !.dirty = u.dirty \/ h # u.hovered]

Ui_process_event(u, event) ==
    CASE event.kind = "CloseRequested" -> [ui |-> u, answer |-> Closed]
      [] event.kind \in {"CursorEnter", "CursorMove"} ->
            [ui |-> Hover(u, HitTest(u.buttons, event.pos)), answer |-> NoAnswer]
      [] event.kind = "CursorLeave" -> [ui |-> Hover(u, None), answer |-> NoAnswer]
      [] event.kind = "ButtonPress" /\ event.button = "Left" ->
            IF u.hovered # None
            THEN [ui |-> [u EXCEPT !.pressed = u.hovered, !.dirty = TRUE],
                  answer |-> NoAnswer]
            ELSE [ui |-> u, answer |-> NoAnswer]
      [] event.kind = "ButtonRelease" /\ event.button = "Left" ->
            IF u.pressed # None /\ u.pressed = u.hovered
            THEN [ui |-> u, answer |-> Button(u.pressed[1])]
            ELSE [ui |-> [u EXCEPT !.pressed = None,
                                   !.dirty = u.dirty \/ u.pressed # None],
                  answer |-> NoAnswer]
      [] event.kind = "RedrawRequested" ->
            [ui |-> [u EXCEPT !.dirty = TRUE], answer |-> NoAnswer]
      [] OTHER -> [ui |-> u, answer |-> NoAnswer]

Ui_redraw(u) ==
    IF u.dirty
    THEN [u EXCEPT !.canvas.paint = Paint(u.hovered, u.pressed), !.dirty = FALSE]
    ELSE u

\* Cursor positions the server reports: the centre of every button, and the
\* cell just right of the first button, which lies in the margin.
Centre(b) == CursorPos(b.x + (b.w \div 2), b.y)
Positions(buttons) ==
    {Centre(buttons[i]) : i \in 1..Len(buttons)}
    \cup (IF buttons = <<>> THEN {CursorPos(0, 0)}
          ELSE {CursorPos(buttons[1].x + buttons[1].w, buttons[1].y)})

\* Every cell of the canvas, for the hit-test properties.
Cells(u) ==
    {CursorPos(x, y) : x \in 0..(u.canvas.width - 1), y \in 0..(u.canvas.height - 1)}

----------------------------------------------------------------------------
\* The closure process_event of the event loop.

\* The CursorMove arm returns after start_drag() and keeps the event from the Ui.
process_event_swallow(p, u, event) ==
    LET r == Ui_process_event(u, event)
        drag == event.kind = "CursorMove" /\ p
    IN [start_drag |-> drag,
        pressed |-> IF drag THEN p
                    ELSE IF event.kind = "ButtonPress" /\ event.button = "Left" THEN TRUE
                    ELSE IF event.kind = "ButtonRelease" /\ event.button = "Left" THEN FALSE
                    ELSE p,
        passed |-> IF drag THEN <<>> ELSE <<event>>,
        ui |-> IF drag THEN u ELSE r.ui,
        answer |-> IF drag THEN NoAnswer ELSE r.answer]

\* The ButtonRelease(Left) arm does not clear `pressed`.
process_event_stuck(p, u, event) ==
    LET r == Ui_process_event(u, event)
    IN [start_drag |-> event.kind = "CursorMove" /\ p,
        pressed |-> IF event.kind = "CursorMove" /\ p THEN p
                    ELSE IF event.kind = "ButtonPress" /\ event.button = "Left" THEN TRUE
                    ELSE p,
        passed |-> <<event>>,
        ui |-> r.ui,
        answer |-> r.answer]

\* ButtonRelease(_) => pressed = false: any mouse button clears the flag.
process_event_anyrelease(p, u, event) ==
    LET r == Ui_process_event(u, event)
    IN [start_drag |-> event.kind = "CursorMove" /\ p,
        pressed |-> IF event.kind = "CursorMove" /\ p THEN p
                    ELSE IF event.kind = "ButtonPress" /\ event.button = "Left" THEN TRUE
                    ELSE IF event.kind = "ButtonRelease" THEN FALSE
                    ELSE p,
        passed |-> <<event>>,
        ui |-> r.ui,
        answer |-> r.answer]

\* ButtonPress(_) => pressed = true: any mouse button sets the flag.
process_event_anypress(p, u, event) ==
    LET r == Ui_process_event(u, event)
    IN [start_drag |-> event.kind = "CursorMove" /\ p,
        pressed |-> IF event.kind = "CursorMove" /\ p THEN p
                    ELSE IF event.kind = "ButtonPress" THEN TRUE
                    ELSE IF event.kind = "ButtonRelease" /\ event.button = "Left" THEN FALSE
                    ELSE p,
        passed |-> <<event>>,
        ui |-> r.ui,
        answer |-> r.answer]

\* The guard of the CursorMove arm is missing: every CursorMove starts a drag.
process_event_unguarded(p, u, event) ==
    LET r == Ui_process_event(u, event)
    IN [start_drag |-> event.kind = "CursorMove",
        pressed |-> IF event.kind = "CursorMove" THEN p
                    ELSE IF event.kind = "ButtonPress" /\ event.button = "Left" THEN TRUE
                    ELSE IF event.kind = "ButtonRelease" /\ event.button = "Left" THEN FALSE
                    ELSE p,
        passed |-> <<event>>,
        ui |-> r.ui,
        answer |-> r.answer]

\* match event { CursorMove(..) if pressed => start_drag, ButtonPress(Left) =>
\* pressed = true, ButtonRelease(Left) => pressed = false, _ => {} };
\* ui.process_event(event)
process_event(p, u, event) ==
    LET r == Ui_process_event(u, event)
    IN [start_drag |-> event.kind = "CursorMove" /\ p,
        pressed |-> IF event.kind = "CursorMove" /\ p THEN p
                    ELSE IF event.kind = "ButtonPress" /\ event.button = "Left" THEN TRUE
                    ELSE IF event.kind = "ButtonRelease" /\ event.button = "Left" THEN FALSE
                    ELSE p,
        passed |-> <<event>>,
        ui |-> r.ui,
        answer |-> r.answer]

----------------------------------------------------------------------------
\* Connection (module x11): the byte stream from the server carries events and
\* replies; a request expecting a reply reads until its reply arrives and
\* queues the events it reads on the way; next_event serves the queue first.

EventMsg(e) == [tag |-> "Event", ev |-> e, seq |-> 0]
ReplyMsg(n) == [tag |-> "Reply", ev |-> Event("-", NoPos, "-"), seq |-> n]

Events(msgs) == SelectSeq(msgs, LAMBDA m : m.tag = "Event")
InFlight == Len(queue) + Len(Events(wire))
InFlightBound == IF watch = "order" THEN MaxQueued ELSE MaxInFlight

\* next_event: whether an event can be taken without waiting, and taking it.
EventReady == queue # <<>> \/ wire # <<>>
next_event ==
    IF queue # <<>>
    THEN [ev |-> Head(queue), queue |-> Tail(queue), wire |-> wire]
    ELSE [ev |-> Head(wire).ev, queue |-> queue, wire |-> Tail(wire)]

\* Dropping one handle of the connection; the socket closes with the last one.
Drop(refs) == IF refs > 0 THEN refs - 1 ELSE 0

----------------------------------------------------------------------------
\* Builder::show

\* No event was processed yet.
NoLast == [kind |-> "-", button |-> "-", atop |-> FALSE, before |-> FALSE,
           after |-> FALSE, drag |-> FALSE, left |-> "none"]

\* The messages of the runs that observe the size of the window: none, short
\* ones, and a word too wide for the 16 bits of a window's width.
Messages == {<<>>, <<2>>, <<7, 2>>, <<U16Max>>}

\* show() begins, on a builder whose button preset is one of presets, whose
\* message is one of msgs and whose theme is one of themes.
Begin(w, presets, msgs, themes, pixels) ==
    /\ watch = w
    /\ button_preset \in presets
    /\ message \in msgs
    /\ theme \in themes
    /\ px \in pixels
    /\ detected = None
    /\ ran = <<>>
    /\ pc = "new"
    /\ result = NoResult
    /\ connRefs = 0
    /\ winExists = FALSE
    /\ winSize = None
    /\ mapped = FALSE
    /\ contents = None
    /\ pressed = FALSE
    /\ ui = NoUi
    /\ wire = <<>>
    /\ queue = <<>>
    /\ seq = 0
    /\ owed = 0
    /\ quiet = FALSE
    /\ pending = <<>>
    /\ orderOk = TRUE
    /\ dragFailed = FALSE
    /\ firstFailed = None
    /\ closed = None
    /\ answerSeen = None
    /\ rel = [seen |-> FALSE, prs |-> None, hov |-> None]
    /\ outsideMoves = 0
    /\ outsideDrags = 0
    /\ iterEvents = 0
    /\ iterRedraws = 0
    /\ iterUploads = 0
    /\ replies = 0
    /\ replySeq = 0
    /\ eager = None
    /\ last = NoLast
    /\ trail = <<>>

\* The builder as alerta() returns it but for the button preset and the theme,
\* which is set: no message.
Start(w) == Begin(w, ButtonPreset, {<<>>}, {Some("Light")}, {NoPixel})

Init == Start("none")
InitDrag == Start("drag")
InitBatch == Start("batch")
InitOrder == Start("order")
InitSize == Begin("size", ButtonPreset, Messages, {Some("Light")}, {NoPixel})
InitPress == Start("press")
InitTheme ==
    Begin("theme", {"Ok", "YesNo"}, {<<>>}, {None} \cup {Some(t) : t \in Theme}, {NoPixel})
InitProgress == Begin("none", {"Ok", "YesNo"}, {<<>>}, {Some("Light")}, {NoPixel})

\* The decoder has written a pixel of the icon: four bytes, R, G, B, A.
InitIcon ==
    Begin("icon", {"Close"}, {<<>>}, {Some("Light")},
          {Pixel("rgba", bytes, U32(0)) : bytes \in Channel \X Channel \X Channel \X Channel})

\* What an action that neither returns nor touches the resources leaves alone.
resources == <<result, connRefs, winExists, winSize, mapped>>
config == <<watch, quiet, setup>>
\* The observations but the trail of the start-up.
others == <<watch, quiet, pending, orderOk, dragFailed, firstFailed, closed, answerSeen, rel,
            outsideMoves, outsideDrags, iterEvents, iterRedraws, iterUploads, replies,
            replySeq, eager, last>>
loopObs == <<pending, orderOk, dragFailed, closed, answerSeen, rel, outsideMoves,
             outsideDrags, eager, last>>
iterObs == <<iterEvents, iterRedraws, iterUploads>>

\* The locals of show go out of scope: ui and pressed are gone, and what the
\* connection had read or queued is gone with them.
DropLocals ==
    /\ pressed' = FALSE
    /\ ui' = NoUi
    /\ wire' = <<>>
    /\ queue' = <<>>
    /\ owed' = 0

\* show returns r: win is dropped and leaves conn the only handle, but the
\* window is forgotten rather than destroyed.
ReturnLeakWindow(r) ==
    /\ pc' = "done"
    /\ result' = r
    /\ connRefs' = IF winExists THEN Drop(connRefs) ELSE Drop(Drop(connRefs))
    /\ UNCHANGED <<winExists, winSize, mapped, contents>>
    /\ DropLocals

\* show returns r: its locals win and conn go out of scope, which drops both
\* handles of the connection and, with the connection, the window.
Return(r) ==
    /\ pc' = "done"
    /\ result' = r
    /\ connRefs' = Drop(Drop(connRefs))
    /\ winExists' = FALSE
    /\ winSize' = None
    /\ mapped' = FALSE
    /\ contents' = None
    /\ DropLocals

\* An operation fails and `?` returns its error.
Fail(op) ==
    /\ Return(Err(op))
    /\ firstFailed' = IF firstFailed = None THEN Some(op) ELSE firstFailed
    /\ UNCHANGED <<config, trail, seq, loopObs, iterObs, replies, replySeq>>

\* Theme::detect, first part: Self::detect_dbus()
DetectDbus ==
    /\ pc = "new" /\ theme = None
    /\ ran = <<>>
    /\ \E out \in Outputs(DbusReplies) :
          LET r == Theme_detect_dbus(out)
          IN /\ ran' = <<Ran("dbus-send", r)>>
             /\ detected' = IF r.tag = "Ok" THEN Some(r.theme) ELSE None
    /\ UNCHANGED <<button_preset, message, theme, px, pc, resources, contents, pressed,
                   ui, wire, queue, seq, owed, obs>>

\* .or(Self::detect_gsettings()): gsettings is asked whatever dbus-send said.
DetectGsettingsAlways ==
    /\ pc = "new" /\ theme = None
    /\ Len(ran) = 1
    /\ \E out \in Outputs(GsettingsReplies) :
          LET r == Theme_detect_gsettings(out)
          IN /\ ran' = Append(ran, Ran("gsettings", r))
             /\ detected' = IF detected # None THEN detected
                             ELSE Some(IF r.tag = "Ok" THEN r.theme ELSE "Light")
    /\ UNCHANGED <<button_preset, message, theme, px, pc, resources, contents, pressed,
                   ui, wire, queue, seq, owed, obs>>

\* Theme::detect, the rest: .or_else(|_| Self::detect_gsettings())
\*                         .unwrap_or(Theme::Light)
DetectGsettings ==
    /\ pc = "new" /\ theme = None
    /\ Len(ran) = 1 /\ ran[1].result.tag = "Err"
    /\ \E out \in Outputs(GsettingsReplies) :
          LET r == Theme_detect_gsettings(out)
          IN /\ ran' = Append(ran, Ran("gsettings", r))
             /\ detected' = Some(IF r.tag = "Ok" THEN r.theme ELSE "Light")
    /\ UNCHANGED <<button_preset, message, theme, px, pc, resources, contents, pressed,
                   ui, wire, queue, seq, owed, obs>>

\* let mut ui = Ui::new(.., self.button_preset.strings())
UiNewAllLabels ==
    /\ pc = "new"
    /\ theme # None \/ detected # None
    /\ ui' = Ui_new(unwrap_or(theme, detected), message, strings("YesNoCancel"))
    /\ pc' = "connect"
    /\ trail' = Append(trail, "Ui::new")
    /\ UNCHANGED <<resources, contents, pressed, wire, queue, seq, owed, others>>
    /\ UNCHANGED setup

\* let mut ui = Ui::new(self.icon, self.theme.unwrap_or_else(Theme::detect),
\*                      &self.message.unwrap_or_default(), self.button_preset.strings())
UiNew ==
    /\ pc = "new"
    /\ theme # None \/ detected # None
    /\ ui' = Ui_new(unwrap_or(theme, detected), message, strings(button_preset))
    /\ pc' = "connect"
    /\ trail' = Append(trail, "Ui::new")
    /\ UNCHANGED <<resources, contents, pressed, wire, queue, seq, owed, others>>
    /\ UNCHANGED setup

\* let conn = x11::Connection::connect()?
Connect ==
    /\ pc = "connect"
    /\ \/ /\ connRefs' = 1
          /\ pc' = "create"
          /\ trail' = Append(trail, "connect")
          /\ UNCHANGED <<result, winExists, winSize, mapped, contents, pressed, ui,
                         wire, queue, seq, owed, others, setup>>
       \/ Fail("connect")

\* A request expecting a reply is sent at pc `at` and awaited at pc `to`.
SendRequest(at, to) ==
    /\ pc = at
    /\ seq' = seq + 1
    /\ owed' = seq + 1
    /\ replies' = 0
    /\ pc' = to
    /\ UNCHANGED replySeq
    /\ UNCHANGED <<result, mapped, contents, pressed, ui, wire, queue>>
    /\ UNCHANGED <<config, trail, loopObs, iterObs, firstFailed>>

\* X11Window::create(conn.clone(), ui.canvas.width() as u16,
\* ui.canvas.height() as u16): the window is created and the atoms it needs are
\* asked for.
CreateSend ==
    /\ SendRequest("create", "create_reply")
    /\ connRefs' = connRefs + 1
    /\ winExists' = TRUE
    /\ winSize' = Some([width |-> AsU16(ui.canvas.width),
                        height |-> AsU16(ui.canvas.height)])

\* .with_title(title)
TitleSend ==
    /\ SendRequest("title", "title_reply")
    /\ UNCHANGED <<connRefs, winExists, winSize>>

AwaitingReply == pc \in {"create_reply", "title_reply"}
AwaitedOp == IF pc = "create_reply" THEN "create" ELSE "with_title"
\* with_title is followed by win.show(), the first upload is left out.
AfterReplyNoUpload == IF pc = "create_reply" THEN "title" ELSE "show"

AfterReply == IF pc = "create_reply" THEN "title" ELSE "contents"

\* send_request_expecting_reply reads an event and forgets it.
AwaitReplyEventDropped ==
    /\ AwaitingReply
    /\ wire # <<>> /\ Head(wire).tag = "Event"
    /\ wire' = Tail(wire)
    /\ UNCHANGED <<pc, resources, contents, pressed, ui, queue, seq, owed, obs>>
    /\ UNCHANGED setup

\* send_request_expecting_reply reads an event: it is queued.
AwaitReplyEvent ==
    /\ AwaitingReply
    /\ wire # <<>> /\ Head(wire).tag = "Event"
    /\ queue' = Append(queue, Head(wire).ev)
    /\ wire' = Tail(wire)
    /\ UNCHANGED <<pc, resources, contents, pressed, ui, seq, owed, obs>>
    /\ UNCHANGED setup

\* send_request_expecting_reply reads a reply: the one with the sequence number
\* of the request ends the call, any other is a protocol error.
AwaitReply ==
    /\ AwaitingReply
    /\ wire # <<>> /\ Head(wire).tag = "Reply"
    /\ IF Head(wire).seq = seq
       THEN /\ wire' = Tail(wire)
            /\ replies' = replies + 1
            /\ replySeq' = Head(wire).seq
            /\ pc' = AfterReply
            /\ trail' = Append(trail, AwaitedOp)
            /\ UNCHANGED <<resources, contents, pressed, ui, queue, seq, owed>>
            /\ UNCHANGED <<config, loopObs, iterObs, firstFailed>>
       ELSE Fail(AwaitedOp)

\* The transport fails while the reply is awaited.
AwaitReplyErr ==
    /\ AwaitingReply
    /\ Fail(AwaitedOp)

\* win.set_contents(&ui.canvas)?  (the first upload)
SetContents ==
    /\ pc = "contents"
    /\ \/ /\ contents' = Some(ui.canvas)
          /\ pc' = "show"
          /\ trail' = Append(trail, "set_contents")
          /\ UNCHANGED <<resources, pressed, ui, wire, queue, seq, owed, others>>
          /\ UNCHANGED setup
       \/ Fail("set_contents")

\* win.show()?
ShowWindow ==
    /\ pc = "show"
    /\ \/ /\ mapped' = TRUE
          /\ pc' = "wait"
          /\ trail' = Append(trail, "show")
          /\ UNCHANGED <<result, connRefs, winExists, winSize, contents, pressed, ui,
                         wire, queue, seq, owed, others, setup>>
       \/ Fail("show")

----------------------------------------------------------------------------
\* The event loop.

IsLeft(event, kind) == event.kind = kind /\ event.button = "Left"

\* start_drag() can fail; the outcomes to consider for event e.
DragOutcomes(e) ==
    IF process_event(pressed, ui, e).start_drag THEN BOOLEAN ELSE {TRUE}

\* What the observations record when event e, taken as Head(pending), has gone
\* through the closure with outcome c.
Observe(e, c, dragOk) ==
    LET outside == e.kind = "CursorMove" /\ pressed /\ HitTest(ui.buttons, e.pos) = None
    IN /\ pending' = IF pending = <<>> THEN pending ELSE Tail(pending)
       /\ orderOk' = (orderOk /\ pending # <<>> /\ c.passed = <<Head(pending)>>)
       /\ dragFailed' = (c.start_drag /\ ~dragOk)
       /\ closed' = IF e.kind = "CloseRequested" /\ closed = None
                    THEN Some([pressed |-> pressed, prs |-> ui.pressed,
                               hov |-> ui.hovered])
                    ELSE closed
       /\ answerSeen' = IF c.answer # NoAnswer /\ answerSeen = None
                        THEN Some(c.answer)
                        ELSE answerSeen
       /\ rel' = IF IsLeft(e, "ButtonRelease")
                 THEN [seen |-> TRUE, prs |-> ui.pressed, hov |-> ui.hovered]
                 ELSE [seen |-> FALSE, prs |-> None, hov |-> None]
       /\ outsideMoves' = Watch("drag", IF IsLeft(e, "ButtonPress") THEN 0
                                         ELSE IF outside THEN Cap(outsideMoves + 1)
                                         ELSE outsideMoves, outsideMoves)
       /\ outsideDrags' = Watch("drag", IF IsLeft(e, "ButtonPress") THEN 0
                                         ELSE IF outside /\ c.start_drag
                                              THEN Cap(outsideDrags + 1)
                                         ELSE outsideDrags, outsideDrags)
       /\ eager' = Watch("batch",
                          LET before == IF eager = None THEN ui ELSE eager[1]
                          IN Some(Ui_redraw(Ui_process_event(before, e).ui)),
                          eager)
       /\ last' = Watch("press",
                         [kind |-> e.kind, button |-> e.button,
                          atop |-> e.kind = "CursorMove"
                                   /\ HitTest(ui.buttons, e.pos) # None,
                          before |-> pressed, after |-> c.pressed,
                          drag |-> c.start_drag,
                          left |-> IF IsLeft(e, "ButtonPress") THEN "press"
                                   ELSE IF IsLeft(e, "ButtonRelease") THEN "release"
                                   ELSE last.left],
                         last)

\* The event taken by t goes through the closure process_event.  With `heed`
\* an answer makes show return it; otherwise the loop goes on draining.
Handle(t, dragOk, heed) ==
    LET c == process_event(pressed, ui, t.ev)
    IN /\ Observe(t.ev, c, dragOk)
       /\ IF heed /\ c.answer # NoAnswer
          THEN Return(Ok(c.answer))
          ELSE /\ pc' = "drain"
               /\ queue' = t.queue
               /\ wire' = t.wire
               /\ pressed' = c.pressed
               /\ ui' = c.ui
               /\ UNCHANGED <<resources, contents, owed>>
       /\ UNCHANGED <<config, trail, seq, firstFailed, replies, replySeq>>

\* let event = win.wait_for_event()?; process_event(event);
WaitForEventIgnoreAnswer ==
    /\ pc = "wait"
    /\ EventReady
    /\ \E dragOk \in DragOutcomes(next_event.ev) : Handle(next_event, dragOk, FALSE)
    /\ iterEvents' = Watch("batch", 1, iterEvents)
    /\ iterRedraws' = 0
    /\ iterUploads' = 0

\* let event = win.wait_for_event()?; if let Some(answer) = process_event(event)
WaitForEvent ==
    /\ pc = "wait"
    /\ EventReady
    /\ \E dragOk \in DragOutcomes(next_event.ev) : Handle(next_event, dragOk, TRUE)
    /\ iterEvents' = Watch("batch", 1, iterEvents)
    /\ iterRedraws' = 0
    /\ iterUploads' = 0

WaitForEventErr ==
    /\ pc = "wait"
    /\ Fail("wait_for_event")

\* The canvas is uploaded as it is, without the redraw() before it.
RedrawAndUploadStale(uploadOk) ==
    /\ iterRedraws' = iterRedraws
    /\ iterUploads' = Watch("batch", Cap(iterUploads + 1), iterUploads)
    /\ UNCHANGED iterEvents
    /\ IF uploadOk
       THEN /\ contents' = Some(ui.canvas)
            /\ pc' = "wait"
            /\ UNCHANGED <<resources, pressed, ui, wire, queue, owed, firstFailed>>
       ELSE /\ Return(Err("set_contents"))
            /\ firstFailed' = IF firstFailed = None THEN Some("set_contents")
                              ELSE firstFailed
    /\ UNCHANGED <<config, trail, seq, loopObs, replies, replySeq>>

\* ui.redraw(); win.set_contents(&ui.canvas)?
RedrawAndUpload(uploadOk) ==
    /\ iterRedraws' = Watch("batch", Cap(iterRedraws + 1), iterRedraws)
    /\ iterUploads' = Watch("batch", Cap(iterUploads + 1), iterUploads)
    /\ UNCHANGED iterEvents
    /\ IF uploadOk
       THEN /\ ui' = Ui_redraw(ui)
            /\ contents' = Some(Ui_redraw(ui).canvas)
            /\ pc' = "wait"
            /\ UNCHANGED <<resources, pressed, wire, queue, owed, firstFailed>>
       ELSE /\ Return(Err("set_contents"))
            /\ firstFailed' = IF firstFailed = None THEN Some("set_contents")
                              ELSE firstFailed
    /\ UNCHANGED <<config, trail, seq, loopObs, replies, replySeq>>

\* while let Some(event) = win.poll_for_event()? { process_event(event); }
PollForEventIgnoreAnswer ==
    /\ pc = "drain"
    /\ EventReady
    /\ \E dragOk \in DragOutcomes(next_event.ev) : Handle(next_event, dragOk, FALSE)
    /\ iterEvents' = Watch("batch", Cap(iterEvents + 1), iterEvents)
    /\ UNCHANGED <<iterRedraws, iterUploads>>

\* The drained event is processed, and the canvas is redrawn and uploaded at once.
PollForEventRedrawEach ==
    /\ pc = "drain"
    /\ EventReady
    /\ LET t == next_event
           c == process_event(pressed, ui, t.ev)
       IN /\ c.answer = NoAnswer
          /\ \E dragOk \in DragOutcomes(t.ev) : Observe(t.ev, c, dragOk)
          /\ pc' = "drain"
          /\ queue' = t.queue
          /\ wire' = t.wire
          /\ pressed' = c.pressed
          /\ ui' = Ui_redraw(c.ui)
          /\ contents' = Some(Ui_redraw(c.ui).canvas)
          /\ iterEvents' = Watch("batch", Cap(iterEvents + 1), iterEvents)
          /\ iterRedraws' = Watch("batch", Cap(iterRedraws + 1), iterRedraws)
          /\ iterUploads' = Watch("batch", Cap(iterUploads + 1), iterUploads)
          /\ UNCHANGED <<resources, owed, config, trail, seq, firstFailed, replies,
                         replySeq>>

\* while let Some(event) = win.poll_for_event()? { if let Some(answer) = .. }
PollForEvent ==
    /\ pc = "drain"
    /\ EventReady
    /\ \E dragOk \in DragOutcomes(next_event.ev) : Handle(next_event, dragOk, TRUE)
    /\ iterEvents' = Watch("batch", Cap(iterEvents + 1), iterEvents)
    /\ UNCHANGED <<iterRedraws, iterUploads>>

\* poll_for_event fails and the error is taken for "no event".
PollForEventErrIgnored ==
    /\ pc = "drain"
    /\ firstFailed' = IF firstFailed = None THEN Some("poll_for_event") ELSE firstFailed
    /\ pc' = "wait"
    /\ UNCHANGED <<resources, contents, pressed, ui, wire, queue, seq, owed>>
    /\ UNCHANGED <<config, trail, loopObs, iterObs, replies, replySeq>>

\* poll_for_event()? fails.
PollForEventErr ==
    /\ pc = "drain"
    /\ Fail("poll_for_event")

\* poll_for_event reports no event and the loop goes back to wait_for_event.
EndOfBatchNoUpload ==
    /\ pc = "drain"
    /\ ~EventReady
    /\ pc' = "wait"
    /\ UNCHANGED <<resources, contents, pressed, ui, wire, queue, seq, owed>>
    /\ UNCHANGED <<config, trail, loopObs, iterObs, firstFailed, replies, replySeq>>

\* poll_for_event reports no event: the batch ends with one redraw and upload.
EndOfBatch ==
    /\ pc = "drain"
    /\ ~EventReady
    /\ \E uploadOk \in BOOLEAN : RedrawAndUpload(uploadOk)

----------------------------------------------------------------------------
\* The X server.

\* The server produces an event for the window.
ServerEvent ==
    /\ pc # "done"
    /\ winExists
    /\ ~quiet
    /\ InFlight < InFlightBound
    /\ \E e \in WindowEvent(Positions(ui.buttons)) :
          /\ wire' = Append(wire, EventMsg(e))
          /\ pending' = Append(pending, e)
    /\ UNCHANGED <<pc, resources, contents, pressed, ui, queue, seq, owed>>
    /\ UNCHANGED <<config, trail, orderOk, dragFailed, firstFailed, closed, answerSeen, rel,
                   outsideMoves, outsideDrags, iterObs, replies, replySeq, eager,
                   last>>

\* The server answers the request it owes a reply; a reply that carries another
\* sequence number is out of sequence.
ServerReply ==
    /\ pc # "done"
    /\ owed # 0
    /\ \E n \in {owed, owed + 1} : wire' = Append(wire, ReplyMsg(n))
    /\ owed' = 0
    /\ UNCHANGED <<pc, resources, contents, pressed, ui, queue, seq, obs>>
    /\ UNCHANGED setup

\* The server produces no event from now on: nothing happens to the window.
ServerStops ==
    /\ pc # "done"
    /\ ~quiet
    /\ quiet' = TRUE
    /\ UNCHANGED <<setup, pc, resources, contents, pressed, ui, wire, queue, seq, owed,
                   trail, watch, loopObs, iterObs, firstFailed, replies, replySeq>>

----------------------------------------------------------------------------
\* The icon's pixels.

\* Icon::get: for p in target.get_data_mut() { .. }
Premultiply ==
    /\ px.stage = "rgba"
    /\ px' = Pixel("argb", px.from, Icon_get(px.from))
    /\ UNCHANGED <<button_preset, message, theme, detected, ran, pc, resources,
                   contents, pressed, ui, wire, queue, seq, owed, obs>>

\* The Ui draws the icon onto the canvas.
DrawIcon ==
    /\ px.stage = "argb"
    /\ \E bg \in Background : px' = Pixel("canvas", px.from, Over(px.value, bg))
    /\ UNCHANGED <<button_preset, message, theme, detected, ran, pc, resources,
                   contents, pressed, ui, wire, queue, seq, owed, obs>>

NextIcon == Premultiply \/ DrawIcon

----------------------------------------------------------------------------

Next ==
    \/ UiNew
    \/ Connect
    \/ CreateSend
    \/ TitleSend
    \/ AwaitReplyEvent
    \/ AwaitReply
    \/ AwaitReplyErr
    \/ SetContents
    \/ ShowWindow
    \/ WaitForEvent
    \/ WaitForEventErr
    \/ PollForEvent
    \/ PollForEventErr
    \/ EndOfBatch
    \/ ServerEvent
    \/ ServerReply

Spec == Init /\ [][Next]_vars
SpecDrag == InitDrag /\ [][Next]_vars
SpecBatch == InitBatch /\ [][Next]_vars
SpecOrder == InitOrder /\ [][Next]_vars
SpecSize == InitSize /\ [][Next]_vars
SpecPress == InitPress /\ [][Next]_vars
SpecIcon == InitIcon /\ [][NextIcon]_vars

\* show() with a server that may fall silent.  The thread of show is never
\* held up in the drain: poll_for_event does not block, so the drain goes on.
NextProgress == ServerStops \/ Next
Drain == PollForEvent \/ PollForEventErr \/ EndOfBatch
SpecProgress == InitProgress /\ [][NextProgress]_vars /\ WF_vars(Drain)

\* show() on a builder whose theme may be unset.
NextTheme == DetectDbus \/ DetectGsettings \/ Next
SpecTheme == InitTheme /\ [][NextTheme]_vars

----------------------------------------------------------------------------
\* Properties.

IsPrefix(a, b) == Len(a) <= Len(b) /\ SubSeq(b, 1, Len(a)) = a

\* The events on the wire, in the order the server wrote them.
WireEvents == LET m == Events(wire) IN [i \in 1..Len(m) |-> m[i].ev]

\* C1: N >= 1 CursorMove events processed while `pressed` is true and the cursor
\* is outside all button rects call start_drag() exactly once for that press
\* episode, not once per CursorMove.
C1_DragOncePerEpisode ==
    watch = "drag" /\ outsideMoves >= 1 => outsideDrags = 1

\* C2 as stated: every failing operation of the event loop, start_drag()
\* included, makes show return that error at once.
C2_EveryErrorSurfaces ==
    /\ dragFailed => pc = "done" /\ result = Err("start_drag")
    /\ firstFailed # None => pc = "done" /\ result = Err(firstFailed[1])

\* C2 as amended: the first error of wait_for_event, poll_for_event or
\* set_contents is returned at once and nothing is processed after it; an error
\* of start_drag() is discarded and the loop goes on.
C2_FatalErrorsSurface ==
    /\ [](/\ firstFailed # None => pc = "done" /\ result = Err(firstFailed[1])
          /\ dragFailed /\ firstFailed = None =>
                pc \in {"drain", "wait"} /\ result = NoResult)
    /\ [][firstFailed # None => UNCHANGED vars]_vars

C2_Witness ==
    dragFailed /\ firstFailed = Some("set_contents") /\ result = Err("set_contents")

\* C3: an iteration of the loop that ends with neither an answer nor an error
\* performs, after the blocking event and the K drained ones, exactly one
\* redraw() and then exactly one set_contents(), which uploads the redrawn canvas.
C3_OneUploadPerBatch ==
    watch = "batch" =>
        /\ pc = "drain" => iterEvents >= 1 /\ iterRedraws = 0 /\ iterUploads = 0
        /\ pc = "wait" /\ iterEvents >= 1 =>
              /\ iterRedraws = 1 /\ iterUploads = 1
              /\ ~ui.dirty /\ contents = Some(ui.canvas)

C3_Witness ==
    watch = "batch" /\ pc = "wait" /\ iterEvents = MaxCount /\ iterUploads = 1

\* C4: whenever a CloseRequested event is processed, whatever the hovered and
\* pressed buttons and the loop's `pressed` flag, show returns Ok(Closed).
C4_CloseAlwaysWins ==
    closed # None => pc = "done" /\ result = Ok(Closed)

C4_Witness ==
    /\ closed # None /\ closed[1].pressed /\ closed[1].prs # None
    /\ closed[1].hov = closed[1].prs
    /\ result = Ok(Closed)

\* C5: at most one button rect contains any cursor position; the buttons are the
\* preset's labels in their order, numbered from 0; and a ButtonRelease(Left)
\* while the pressed button i is still hovered yields Button(i), i less than the
\* number of labels of the preset.
C5_ClickYieldsIndex ==
    /\ \A pos \in Cells(ui) :
          Cardinality({i \in 1..Len(ui.buttons) : Contains(ui.buttons[i], pos)}) <= 1
    /\ pc \notin {"new", "done"} =>
          /\ Len(ui.buttons) = Len(strings(button_preset))
          /\ \A i \in 1..Len(ui.buttons) :
                /\ ui.buttons[i].index = i - 1
                /\ ui.buttons[i].label = strings(button_preset)[i]
    /\ rel.seen /\ rel.prs # None /\ rel.prs = rel.hov =>
          pc = "done" /\ result = Ok(Button(rel.prs[1]))
    /\ result.answer.tag = "Button" =>
          /\ result.answer.index[1] >= 0
          /\ result.answer.index[1] < Len(strings(button_preset))

C5_Witness ==
    /\ button_preset = "YesNoCancel"
    /\ rel.seen /\ rel.prs = Some(1) /\ rel.hov = Some(1)
    /\ result = Ok(Button(1))

\* C6: a ButtonRelease(Left) yields Button(i) only if the Ui's pressed button is
\* i and button i is still hovered; any other left release clears the pressed
\* state, yields no answer and leaves the loop running.
C6_ReleaseOutsideCancels ==
    /\ result.answer.tag = "Button" =>
          rel.seen /\ rel.prs = result.answer.index /\ rel.hov = rel.prs
    /\ rel.seen /\ ~(rel.prs # None /\ rel.prs = rel.hov) =>
          /\ result.tag # "Ok"
          /\ firstFailed = None =>
                /\ pc \in {"drain", "wait"}
                /\ ui.pressed = None
                /\ ~pressed

C6_Witness ==
    /\ rel.seen /\ rel.prs = Some(0) /\ rel.hov = None
    /\ pc = "drain" /\ result = NoResult

\* C7: as soon as process_event yields an answer, for the blocking event or a
\* drained one, show returns it; the events queued behind it are never
\* processed, and no start_drag, redraw or upload follows.
C7_AnswerEndsLoop ==
    /\ [](answerSeen # None => pc = "done" /\ result = Ok(answerSeen[1]))
    /\ [][answerSeen # None => UNCHANGED vars]_vars

C7_Witness ==
    /\ watch = "order"
    /\ answerSeen # None /\ result.tag = "Ok"
    /\ Len(pending) = 1

\* C8: the events passed to Ui::process_event, by the blocking wait and by the
\* drain, are the events the server produced, in the order it produced them.
C8_EventOrderPreserved ==
    /\ orderOk
    /\ pc \in {"wait", "drain"} => pending = queue \o WireEvents

C8_Witness ==
    /\ watch = "order"
    /\ pc = "drain" /\ orderOk
    /\ Len(queue) = 1 /\ Len(wire) = 1 /\ queue[1] # wire[1].ev

\* C9: while a request awaits its reply, every event read before the reply is
\* queued, in arrival order, for next_event; and the call ends with exactly one
\* reply, which carries the request's sequence number, or with an error.
C9_NoEventLostAwaitingReply ==
    /\ pc \in {"create_reply", "title", "title_reply", "contents", "show"} =>
          /\ pending = queue \o WireEvents
          /\ IsPrefix(queue, pending)
    /\ AwaitingReply => replies = 0
    /\ pc \in {"title", "contents"} => replies = 1 /\ replySeq = seq
    /\ result.tag = "Err" /\ result.op \in {"create", "with_title"} =>
          firstFailed = Some(result.op)

C9_Witness ==
    /\ watch = "order"
    /\ pc = "contents" /\ replies = 1
    /\ Len(queue) = 2 /\ queue[1] # queue[2]

\* C10: on every exit path of show, the connection and the window that had been
\* created by then are closed and destroyed when show returns.
C10_ReleasedOnReturn ==
    pc = "done" => connRefs = 0 /\ ~winExists /\ ~mapped

C10_Witness ==
    pc = "done" /\ result = Err("poll_for_event") /\ replies = 1 /\ seq = 2

\* C11: the canvas uploaded at the end of a drained batch is the canvas that a
\* loop doing redraw() and set_contents() after every single event would have
\* uploaded last for the same events, and both loops hold the same Ui state.
C11_CoalescingSameCanvas ==
    watch = "batch" /\ eager # None /\ pc \in {"wait", "drain"} =>
        /\ eager[1].hovered = ui.hovered /\ eager[1].pressed = ui.pressed
        /\ pc = "wait" => contents = Some(eager[1].canvas)

\* A press and a hover change drained in one batch, uploaded once.
C11_Witness ==
    /\ watch = "batch" /\ eager # None /\ pc = "wait" /\ iterEvents = 2
    /\ ui.pressed # None /\ ui.hovered = None
    /\ contents = Some([ui.canvas EXCEPT !.paint = Paint(None, ui.pressed)])

\* C12: the width and height the window is created with are the width and
\* height of the Ui's canvas, for every message and button preset; they never
\* change afterwards, and every canvas uploaded later has that size.
C12_WindowHasCanvasSize ==
    /\ [](winSize # None =>
            /\ winSize[1].width = ui.canvas.width
            /\ winSize[1].height = ui.canvas.height
            /\ contents # None =>
                  /\ contents[1].width = winSize[1].width
                  /\ contents[1].height = winSize[1].height)
    /\ [][winSize # None /\ winSize' # None => winSize' = winSize]_vars

\* C13: Icon::get turns every RGBA pixel (r, g, b, a) into the 32-bit pixel
\* (a << 24) | (r' << 16) | (g' << 8) | b' with r' = r * a / 255 and likewise g'
\* and b': each channel stays within its 8 bits and r', g', b' <= a; and a pixel
\* of the canvas the icon was drawn on has red, green and blue <= alpha as well.
C13_Premultiplied ==
    /\ px.stage = "argb" =>
          /\ px.value.hi < Half /\ px.value.lo < Half
          /\ Alpha(px.value) = px.from[4]
          /\ Red(px.value) = (px.from[1] * px.from[4]) \div 255
          /\ Green(px.value) = (px.from[2] * px.from[4]) \div 255
          /\ Blue(px.value) = (px.from[3] * px.from[4]) \div 255
    /\ px.stage \in {"argb", "canvas"} =>
          /\ Alpha(px.value) < Byte
          /\ Red(px.value) <= Alpha(px.value)
          /\ Green(px.value) <= Alpha(px.value)
          /\ Blue(px.value) <= Alpha(px.value)

C13_Witness ==
    /\ px.stage = "argb" /\ px.from = <<255, 254, 1, 128>>
    /\ Red(px.value) = 128 /\ Green(px.value) = 127 /\ Blue(px.value) = 0

\* The operations of show that can fail.
Fallible ==
    {"connect", "create", "with_title", "set_contents", "show", "wait_for_event",
     "poll_for_event"}

\* The theme Theme::detect yields for the commands it ran.
Resolved(cmds) ==
    IF cmds[1].result.tag = "Ok" THEN cmds[1].result.theme
    ELSE IF Len(cmds) = 2 /\ cmds[2].result.tag = "Ok" THEN cmds[2].result.theme
    ELSE "Light"

\* C14: with a theme set on the builder show uses it and runs no command;
\* otherwise dbus-send is asked first, gsettings only if dbus-send failed, the
\* first result that succeeds is used, and Light if both fail.  No outcome of
\* the detection makes show fail.
C14_ThemeResolution ==
    /\ theme # None =>
          /\ ran = <<>>
          /\ pc \notin {"new", "done"} => ui.theme = theme[1]
    /\ theme = None =>
          /\ Len(ran) <= 2
          /\ Len(ran) >= 1 => ran[1].cmd = "dbus-send"
          /\ Len(ran) = 2 => ran[1].result.tag = "Err" /\ ran[2].cmd = "gsettings"
          /\ pc # "new" =>
                /\ ran # <<>>
                /\ ran[1].result.tag = "Err" => Len(ran) = 2
          /\ pc \notin {"new", "done"} => ui.theme = Resolved(ran)
    /\ pc = "new" => result = NoResult
    /\ result.tag = "Err" => result.op \in Fallible

C14_Witness ==
    /\ theme = None /\ pc = "wait" /\ ui.theme = "Dark"
    /\ ran = <<Ran("dbus-send", ThemeErr), Ran("gsettings", ThemeOk("Dark"))>>

StartupOrder == <<"Ui::new", "connect", "create", "with_title", "set_contents", "show">>

\* The steps of the start-up that come before op.
Before(op) ==
    LET i == CHOOSE k \in 1..Len(StartupOrder) : StartupOrder[k] = op
    IN SubSeq(StartupOrder, 1, i - 1)

\* C15: show does Ui::new, connect, create, with_title, the first set_contents
\* and show (map) in this order; when one of them fails show returns its error
\* and no later step runs.  After a failed connect no window was ever asked
\* for, and the window is mapped only after its first upload succeeded.
C15_StartupOrdering ==
    /\ IsPrefix(trail, StartupOrder)
    /\ pc \in {"wait", "drain"} => trail = StartupOrder
    /\ result.tag = "Ok" => trail = StartupOrder
    /\ result.tag = "Err" =>
          \/ /\ trail = StartupOrder
             /\ result.op \in {"wait_for_event", "poll_for_event", "set_contents"}
          \/ /\ trail # StartupOrder
             /\ result.op \in {"connect", "create", "with_title", "set_contents", "show"}
             /\ trail = Before(result.op)
    /\ result = Err("connect") => seq = 0
    /\ seq >= 1 => Len(trail) >= 2
    /\ winExists => connRefs >= 1 /\ Len(trail) >= 2
    /\ pc # "done" /\ Len(trail) >= 5 => contents # None
    /\ mapped => contents # None /\ trail = StartupOrder

C15_Witness ==
    /\ pc = "done" /\ result = Err("show")
    /\ trail = <<"Ui::new", "connect", "create", "with_title", "set_contents">>

\* C16 as stated: start_drag() is called only for a CursorMove whose position
\* is outside all button rects; a CursorMove processed while `pressed` is true
\* and the cursor is inside a button rect calls no start_drag().
C16_NoDragAtopButton ==
    watch = "press" =>
        /\ last.drag => last.kind = "CursorMove" /\ ~last.atop
        /\ last.kind = "CursorMove" /\ last.before /\ last.atop => ~last.drag

\* C16 as amended: start_drag() is called for every CursorMove processed while
\* `pressed` is true, inside a button rect as well as outside, and for no other
\* event.
C16_DragWhereverPressed ==
    watch = "press" =>
        (last.drag <=> last.kind = "CursorMove" /\ last.before)

C16_Witness ==
    /\ watch = "press" /\ pc = "drain"
    /\ last.kind = "CursorMove" /\ last.atop /\ last.drag
    /\ ui.pressed # None /\ ui.hovered = ui.pressed

\* C17: the loop's `pressed` flag is true exactly when the left press or release
\* processed last was a press, and false before any; every other event, the
\* presses and releases of the middle and right buttons included, leaves it as
\* it was; and start_drag() is called only for a CursorMove processed while the
\* flag is true.
C17_PressedTracksLeftButton ==
    watch = "press" =>
        /\ pc \in {"wait", "drain"} => pressed = (last.left = "press")
        /\ pc \in {"new", "connect", "create", "create_reply", "title", "title_reply",
                    "contents", "show"} => ~pressed /\ last = NoLast
        /\ last.kind # "-" =>
              /\ last.after = (last.left = "press")
              /\ IF last.kind = "ButtonPress" /\ last.button = "Left" THEN last.after
                 ELSE IF last.kind = "ButtonRelease" /\ last.button = "Left"
                      THEN ~last.after
                 ELSE last.after = last.before
        /\ last.drag => last.before /\ last.kind = "CursorMove"

\* The left button is down and the right one is released.
C17_Witness ==
    /\ watch = "press" /\ pc = "drain" /\ pressed
    /\ last.kind = "ButtonRelease" /\ last.button = "Right"
    /\ last.left = "press"

\* C18: in every state of the event loop, a pressed button of the Ui implies
\* that the loop's `pressed` flag is true; the Ui's pressed and hovered indices
\* refer to existing buttons; and after a ButtonRelease(Left) was processed the
\* flag is false and the Ui has no pressed button.
C18_PressTrackersAgree ==
    pc \in {"wait", "drain"} =>
        /\ ui.pressed # None => pressed
        /\ \A o \in {ui.pressed, ui.hovered} :
              o # None =>
                  /\ o[1] \in 0..(Len(ui.buttons) - 1)
                  /\ ui.buttons[o[1] + 1].index = o[1]
        /\ rel.seen => ~pressed /\ ui.pressed = None

\* A button is held down and the cursor is over another one.
C18_Witness ==
    /\ pc = "drain" /\ pressed
    /\ ui.pressed = Some(1) /\ ui.hovered = Some(0)
    /\ ~rel.seen

\* C19: show leaves the loop only by returning an answer or an error; and once
\* the server has stopped producing events the drain ends: the loop gets to
\* redraw() and set_contents(), so that the canvas uploaded shows the events
\* processed, unless an answer or an error ended show first.
C19_LoopProgress ==
    /\ [](pc \in {"wait", "drain"} => result = NoResult)
    /\ [][(pc \in {"wait", "drain"} /\ pc' \notin {"wait", "drain"})
             => (pc' = "done" /\ result' # NoResult)]_vars
    /\ (quiet /\ pc = "drain") ~>
          (pc = "done" \/ (pc = "wait" /\ ~ui.dirty /\ contents = Some(ui.canvas)))

\* The server is silent, the events are processed, and the canvas shows them.
C19_Witness ==
    /\ quiet /\ pc = "wait" /\ ~EventReady
    /\ ui.pressed # None /\ ui.hovered = None
    /\ contents = Some(ui.canvas) /\ ui.canvas.paint = Paint(None, ui.pressed)

====
